---- MODULE Spec2Model ----
(***************************************************************************)
(* Voice orchestration core of static/script.js: the wake / command /     *)
(* confirmation recognition sessions, the speech output channel, the      *)
(* restart timers, the confirmation dialog and the backend requests.      *)
(*                                                                         *)
(* The browser is the environment.  A recognition session object is       *)
(*   "idle"     not started (start() succeeds),                           *)
(*   "active"   started and capturing,                                    *)
(*   "stopping" stop() was requested: a final result may still be         *)
(*              delivered, then the end event,                            *)
(*   "ending"   an error or the final result was delivered: only the end  *)
(*              event remains.                                            *)
(* start() on an object that is not idle throws InvalidStateError; stop() *)
(* on an object that is not active does nothing and causes no event.      *)
(* synth.cancel() empties the synthesizer's queue; the utterances it      *)
(* removes get an error event, not an end event (Web Speech API).         *)
(***************************************************************************)
EXTENDS Integers, Sequences, FiniteSets, TLC

VARIABLES
  recog,            \* SpeechRecognition is supported by the host (script.js:27)
  synth,            \* window.speechSynthesis exists (script.js:26)
  listening,        \* script.js:30
  wakeRunning,      \* script.js:32
  inCommandMode,    \* script.js:33
  inConfirmDialog,  \* script.js:37
  confirmOnConfirm, \* script.js:44, which onConfirm closure is stored
  wake,             \* state of the object wakeRecognition refers to
  cmd,              \* state of the object commandRecognition refers to
  conf,             \* state of the object confirmRecognition refers to, or "null"
  orph,             \* session objects no variable refers to any more, still alive
  timers,           \* pending setTimeout(startWakeRecognition, ...) callbacks
  queue,            \* utterances of the synthesizer, the head is being spoken
  inflight,         \* backend requests whose response is still to come
  inputs,           \* user clicks and recognition results so far
  resolutions,      \* history: onConfirm/onCancel calls since the last open
  owed,             \* history: a close with listening on, no wake start since
  restarts,         \* history: wake starts that followed a command-session error
  ev,               \* history: what the last handler did
  transcript,       \* the transcript a recognition result carries (characters)
  outcome,          \* history: what the handler made of the transcript
  sortMode,         \* script.js:34
  request,          \* what the command interpreter has fetched: path and payload
  tasks,            \* the task collection the backend returns for GET /tasks
  response,         \* what comes back for the POST of the command interpreter
  out               \* history: what a response handler spoke, showed, fetched, returned

vars == <<recog, synth, listening, wakeRunning, inCommandMode, inConfirmDialog,
          confirmOnConfirm, wake, cmd, conf, orph, timers, queue, inflight,
          inputs, resolutions, owed, restarts, ev, transcript, outcome, sortMode, request,
          tasks, response, out>>

----------------------------------------------------------------------------
(* Bounds of the model *)

MaxOrphans == 1
MaxTimers == 1
MaxQueue == 2
MaxInflight == 1
MaxInputs == 3

----------------------------------------------------------------------------
(* Vocabulary *)

Kinds == {"wake", "cmd", "conf"}
Live == {"active", "stopping", "ending"}
OKeys == Kinds \X Live

\* Utterance texts, by the place that speaks them.
Utterances == {"yes", "confirmPrompt", "reprompt", "cancelAck", "msg"}

\* What the synthesizer holds of an utterance: the text when its onend is set,
\* "plain" when it has no onend.
CallbackOf(text) ==
  IF text \in {"yes", "confirmPrompt", "reprompt"} THEN text ELSE "plain"

\* What the command interpreter makes of a transcript (processCommand's branches).
Intents == {"empty", "post", "clearCompleted", "clearAll", "list", "say"}

\* What confirmRecognition.onresult makes of a reply.
Replies == {"accept", "decline", "other"}

\* The values of sortMode: the options of the Sort By dropdown.
SortModes == {"created", "priority", "category", "due"}

\* Nothing spoken; a spoken text with the number and the names it embeds.
NoSpeech == [text |-> "none", count |-> 0, names |-> <<>>]

\* No response handled.
NoOut == [spoken |-> NoSpeech, status |-> "none", refreshed |-> "none",
          returned |-> "none"]

\* No POST to answer.
NoReply == [kind |-> "none", ok |-> FALSE, message |-> "none", error |-> "none"]

\* No fetch made by the command interpreter.
NoRequest == [method |-> "none", path |-> "none", key |-> "none", value |-> <<>>]

NoOrph == [k \in OKeys |-> 0]

OfKind(o, k) == o[<<k, "active">>] + o[<<k, "stopping">>] + o[<<k, "ending">>]

OrphCount(o) == OfKind(o, "wake") + OfKind(o, "cmd") + OfKind(o, "conf")

\* The record of one handler run: which handler (act), on which session object
\* (who), with which input (arg), whether the dialog was open when it began
\* (wasOpen), and what it did.
NoEv(a, w, x) ==
  [act |-> a, who |-> w, arg |-> x, wasOpen |-> inConfirmDialog,
   post |-> "none", started |-> {}, threw |-> FALSE, said |-> {},
   detected |-> FALSE, onConfirm |-> 0, onCancel |-> 0, opened |-> "none",
   closed |-> 0, scheduled |-> 0, ran |-> {}, dropped |-> {}]

\* The program state as one value, so that a handler is a function of it.
S(a, w, x) ==
  [listening |-> listening, wakeRunning |-> wakeRunning,
   inCommandMode |-> inCommandMode, inConfirmDialog |-> inConfirmDialog,
   confirmOnConfirm |-> confirmOnConfirm, wake |-> wake, cmd |-> cmd,
   conf |-> conf, orph |-> orph, timers |-> timers, queue |-> queue,
   inflight |-> inflight, inputs |-> inputs,
   resolutions |-> resolutions, owed |-> owed, ev |-> NoEv(a, w, x)]

\* The wake-session starts that one termination of the command session (its
\* error, then its end and the timer of the end) has led to: counted from the
\* error of the current command session on, as long as nothing else calls or
\* schedules startWakeRecognition (a mute click, a dialog that closes, the end
\* of another session) and no new detection or command session begins; -1
\* otherwise.
StartsSince(e) ==
  LET n == IF "wake" \in e.started THEN 1 ELSE 0
  IN  IF e.act = "CommandError" /\ e.who = "cur" THEN n
      ELSE IF \/ restarts < 0
              \/ e.act = "MuteClick" \/ e.detected \/ "cmd" \in e.started
              \/ e.scheduled > 0 /\ ~(e.act = "CommandEnd" /\ e.who = "cur")
        THEN -1
      ELSE IF restarts + n < 2 THEN restarts + n ELSE 2

\* The handler's result becomes the next state, within the bounds.
CommitState(s) ==
  \E r \in {s} :
    /\ OrphCount(r.orph) <= MaxOrphans
    /\ r.timers <= MaxTimers
    /\ Len(r.queue) <= MaxQueue
    /\ r.inflight <= MaxInflight
    /\ r.inputs <= MaxInputs
    /\ listening' = r.listening
    /\ wakeRunning' = r.wakeRunning
    /\ inCommandMode' = r.inCommandMode
    /\ inConfirmDialog' = r.inConfirmDialog
    /\ confirmOnConfirm' = r.confirmOnConfirm
    /\ wake' = r.wake
    /\ cmd' = r.cmd
    /\ conf' = r.conf
    /\ orph' = r.orph
    /\ timers' = r.timers
    /\ queue' = r.queue
    /\ inflight' = r.inflight
    /\ inputs' = r.inputs
    /\ resolutions' = r.resolutions
    /\ owed' = r.owed
    /\ restarts' = StartsSince(r.ev)
    /\ ev' = r.ev
    /\ UNCHANGED <<recog, synth>>

\* The same for a handler that is not given a transcript: it interprets nothing,
\* so it neither sets sortMode nor composes a request payload.
Commit(s) ==
  /\ CommitState(s)
  /\ UNCHANGED <<transcript, outcome, sortMode, request, tasks, response, out>>

\* A user click and a delivered recognition result, counted.
Click(s) == [s EXCEPT !.inputs = @ + 1]

Result(s) == [s EXCEPT !.inputs = @ + 1]

----------------------------------------------------------------------------
(* Recognition session objects *)

\* recognition.stop(): only an active session reacts.
StopSession(st) == IF st = "active" THEN "stopping" ELSE st

\* An object that loses its last reference stays alive while it has events to deliver.
Orphan(s, k, st) ==
  IF st \in Live THEN [s EXCEPT !.orph[<<k, st>>] = @ + 1] ELSE s

Cur(s, k) == IF k = "wake" THEN s.wake ELSE IF k = "cmd" THEN s.cmd ELSE s.conf

SetCur(s, k, st) ==
  IF k = "wake" THEN [s EXCEPT !.wake = st]
  ELSE IF k = "cmd" THEN [s EXCEPT !.cmd = st]
  ELSE [s EXCEPT !.conf = st]

\* Some session object of kind k, the referenced one ("cur") or an unreferenced
\* one ("orph"), is in state st.
Has(s, k, who, st) ==
  IF who = "cur" THEN Cur(s, k) = st ELSE s.orph[<<k, st>>] > 0

\* That object moves from state from to state to.
Move(s, k, who, from, to) ==
  IF who = "cur" THEN SetCur(s, k, to)
  ELSE LET gone == [s EXCEPT !.orph[<<k, from>>] = @ - 1]
       IN  Orphan(gone, k, to)

\* recognition.start() on the referenced object of kind k: InvalidStateError
\* unless the object is idle; a missing object (null) is a TypeError.
Start(s, k) ==
  IF Cur(s, k) = "idle"
    THEN [SetCur(s, k, "active") EXCEPT
            !.ev.started = @ \cup {k},
            !.owed = IF k = "wake" THEN FALSE ELSE @]
    ELSE [s EXCEPT !.ev.threw = TRUE]

----------------------------------------------------------------------------
(* Wake session control *)

\* A startWakeRecognition that sets the flag before the try block.
startWakeRecognitionFlagsFirst(s) ==
  IF ~s.wakeRunning /\ s.listening /\ recog
    THEN [Start(s, "wake") EXCEPT !.wakeRunning = TRUE]
    ELSE s

startWakeRecognition(s) ==
  IF ~s.wakeRunning /\ s.listening /\ recog
    THEN IF s.wake = "idle"
           THEN [Start(s, "wake") EXCEPT !.wakeRunning = TRUE]
           ELSE Start(s, "wake")
    ELSE s

stopWakeRecognition(s) ==
  IF s.wakeRunning /\ recog
    THEN [s EXCEPT !.wake = StopSession(@), !.wakeRunning = FALSE]
    ELSE s

\* commandRecognition && commandRecognition.stop()
stopCommandRecognition(s) ==
  IF recog THEN [s EXCEPT !.cmd = StopSession(@)] ELSE s

----------------------------------------------------------------------------
(* Speech output channel *)

\* synth.cancel(): the queue is emptied, no end event comes for what was in it;
\* the completion callbacks of the removed utterances are never run.
synthCancel(s) ==
  [s EXCEPT !.queue = <<>>,
            !.ev.dropped = @ \cup ({s.queue[i] : i \in 1..Len(s.queue)} \ {"plain"})]

\* A startConfirmRecognition without the test of SpeechRecognition.
startConfirmRecognitionNoGuard(s) ==
  LET old == Orphan(s, "conf", s.conf)
  IN  [old EXCEPT !.conf = "active", !.ev.started = @ \cup {"conf"}]

\* The body of openConfirmDialog's inner function.
startConfirmRecognition(s) ==
  IF ~recog THEN s
  ELSE LET old == Orphan(s, "conf", s.conf)
       IN  [old EXCEPT !.conf = "active", !.ev.started = @ \cup {"conf"}]

\* utter.onend of the wake prompt.
promptOnEnd(s) == Start(s, "cmd")

\* What the end event of an utterance runs.
onEndOf(s, cb) ==
  LET a == IF cb = "plain" THEN s ELSE [s EXCEPT !.ev.ran = @ \cup {cb}]
  IN  IF cb = "yes" THEN promptOnEnd(a)
      ELSE IF cb \in {"confirmPrompt", "reprompt"} THEN startConfirmRecognition(a)
      ELSE a

speak(s, text) ==
  LET a == [s EXCEPT !.ev.said = @ \cup {text}]
  IN  IF ~synth THEN onEndOf(a, CallbackOf(text))
      ELSE [synthCancel(a) EXCEPT !.queue = <<CallbackOf(text)>>]

----------------------------------------------------------------------------
(* Backend *)

sendCommandJson(s, path) ==
  [s EXCEPT !.inflight = @ + 1, !.ev.post = path]

----------------------------------------------------------------------------
(* Confirmation dialog *)

openConfirmDialog(s, onConfirm) ==
  LET a == [s EXCEPT !.inConfirmDialog = TRUE, !.confirmOnConfirm = onConfirm,
                     !.resolutions = 0, !.owed = FALSE, !.ev.opened = onConfirm]
      b == stopCommandRecognition(stopWakeRecognition(a))
  IN  speak(b, "confirmPrompt")

askForClearAllConfirmation(s) == openConfirmDialog(s, "clearAll")

askForClearCompletedConfirmation(s) == openConfirmDialog(s, "clearCompleted")

\* The onConfirm closures the two helpers pass.
runOnConfirm(s, closure) ==
  sendCommandJson(s, IF closure = "clearAll" THEN "/clear" ELSE "/clear-completed")

closeConfirmDialog(s) ==
  LET a == IF s.conf # "null"
             THEN [Orphan(s, "conf", StopSession(s.conf)) EXCEPT !.conf = "null"]
             ELSE s
      b == [a EXCEPT !.inConfirmDialog = FALSE, !.ev.closed = @ + 1]
  IN  IF b.listening
        THEN [b EXCEPT !.timers = @ + 1, !.owed = recog, !.ev.scheduled = @ + 1]
        ELSE b

Count(n) == IF n < 2 THEN n + 1 ELSE 2

\* An accept that runs onConfirm and leaves the dialog open.
handleConfirmYesNoClose(s) ==
  IF s.confirmOnConfirm # "none"
    THEN runOnConfirm([s EXCEPT !.ev.onConfirm = @ + 1, !.resolutions = Count(@)],
                      s.confirmOnConfirm)
    ELSE s

handleConfirmYes(s) ==
  LET a == closeConfirmDialog(s)
  IN  IF a.confirmOnConfirm # "none"
        THEN runOnConfirm([a EXCEPT !.ev.onConfirm = @ + 1,
                                    !.resolutions = Count(@)],
                          a.confirmOnConfirm)
        ELSE a

handleConfirmCancel(s) ==
  LET a == speak(closeConfirmDialog(s), "cancelAck")
  IN  IF a.confirmOnConfirm # "none"
        THEN [a EXCEPT !.ev.onCancel = @ + 1, !.resolutions = Count(@)]
        ELSE a

----------------------------------------------------------------------------
(* Command interpreter, by intent *)

\* A processCommand whose request branches lack their return and run on into
\* the final apology.
processCommandNoReturn(s, intent) ==
  IF intent = "empty" THEN s
  ELSE IF intent = "post" THEN speak(sendCommandJson(s, "/cmd"), "msg")
  ELSE IF intent = "clearCompleted" THEN askForClearCompletedConfirmation(s)
  ELSE IF intent = "clearAll" THEN askForClearAllConfirmation(s)
  ELSE IF intent = "list" THEN [s EXCEPT !.inflight = @ + 1]
  ELSE speak(s, "msg")

processCommand(s, intent) ==
  IF intent = "empty" THEN s
  ELSE IF intent = "post" THEN sendCommandJson(s, "/cmd")
  ELSE IF intent = "clearCompleted" THEN askForClearCompletedConfirmation(s)
  ELSE IF intent = "clearAll" THEN askForClearAllConfirmation(s)
  ELSE IF intent = "list" THEN [s EXCEPT !.inflight = @ + 1]
  ELSE speak(s, "msg")

----------------------------------------------------------------------------
(* Event handlers wired by initRecognizers *)

wakeOnResult(s, heard) ==
  IF heard /\ ~s.inCommandMode /\ ~s.inConfirmDialog
    THEN LET a == stopWakeRecognition([s EXCEPT !.inCommandMode = TRUE,
                                                !.ev.detected = TRUE])
         IN  IF synth
               THEN [a EXCEPT !.queue = Append(@, "yes"), !.ev.said = @ \cup {"yes"}]
               ELSE [a EXCEPT !.ev.threw = TRUE]
    ELSE s

\* A wake onend that clears the flag and schedules no restart.
wakeOnEndNoRestart(s) == [s EXCEPT !.wakeRunning = FALSE]

wakeOnEnd(s) ==
  LET a == [s EXCEPT !.wakeRunning = FALSE]
  IN  IF ~a.inCommandMode /\ a.listening /\ ~a.inConfirmDialog
        THEN [a EXCEPT !.timers = @ + 1, !.ev.scheduled = @ + 1]
        ELSE a

commandOnEnd(s) ==
  LET a == [s EXCEPT !.inCommandMode = FALSE]
  IN  IF a.listening /\ ~a.inConfirmDialog
        THEN [a EXCEPT !.timers = @ + 1, !.ev.scheduled = @ + 1]
        ELSE a

commandOnError(s) ==
  LET a == [s EXCEPT !.inCommandMode = FALSE]
  IN  IF ~a.inConfirmDialog THEN startWakeRecognition(a) ELSE a

confirmOnResult(s, reply) ==
  IF reply = "accept" THEN handleConfirmYes(s)
  ELSE IF reply = "decline" THEN handleConfirmCancel(s)
  ELSE speak(s, "reprompt")

\* confirmRecognition.start() names the variable, not the object that ended.
\* A confirm onend that does not restart the session.
confirmOnEndNoRestart(s) == s

confirmOnEnd(s) ==
  IF s.inConfirmDialog THEN Start(s, "conf") ELSE s

initRecognizers(s) ==
  IF ~recog THEN s
  ELSE LET a == Orphan(Orphan(s, "wake", s.wake), "cmd", s.cmd)
       IN  [a EXCEPT !.wake = "idle", !.cmd = "idle"]

muteClick(s) ==
  LET a == [s EXCEPT !.listening = ~@, !.owed = FALSE]
  IN  IF a.listening
        THEN startWakeRecognition(initRecognizers(a))
        ELSE stopCommandRecognition(stopWakeRecognition(a))

----------------------------------------------------------------------------
(* Initial state: the script has loaded (script.js:1329-1334) *)

Init ==
  /\ recog \in BOOLEAN
  /\ synth \in BOOLEAN
  /\ listening = TRUE
  /\ wakeRunning = recog
  /\ inCommandMode = FALSE
  /\ inConfirmDialog = FALSE
  /\ confirmOnConfirm = "none"
  /\ wake = IF recog THEN "active" ELSE "idle"
  /\ cmd = "idle"
  /\ conf = "null"
  /\ orph = NoOrph
  /\ timers = 0
  /\ queue = <<>>
  /\ inflight = 0
  /\ inputs = 0
  /\ resolutions = 0
  /\ owed = FALSE /\ restarts = -1
  /\ ev = NoEv("Init", "cur", "")
  /\ transcript = <<>>
  /\ outcome = "none"
  /\ sortMode = "created"
  /\ request = NoRequest
  /\ out = NoOut
  /\ tasks = <<>>
  /\ response = NoReply

----------------------------------------------------------------------------
(* Events of the recognition sessions *)

Who == {"cur", "orph"}

AfterResult(k, from) == IF k = "wake" /\ from = "active" THEN "active" ELSE "ending"

WakeResult ==
  \E who \in Who, from \in {"active", "stopping"}, heard \in BOOLEAN :
    LET s == S("WakeResult", who, IF heard THEN "heard" ELSE "noise")
    IN  /\ Has(s, "wake", who, from)
        /\ Commit(wakeOnResult(
                    Result(Move(s, "wake", who, from, AfterResult("wake", from))),
                    heard))

\* wakeRecognition.onerror only logs.
WakeError ==
  \E who \in Who :
    LET s == S("WakeError", who, "")
    IN  /\ Has(s, "wake", who, "active")
        /\ Commit(Move(s, "wake", who, "active", "ending"))

WakeEndOf(who, from) ==
  LET s == S("WakeEnd", who, "")
  IN  /\ Has(s, "wake", who, from)
      /\ Commit(wakeOnEnd(Move(s, "wake", who, from, "idle")))

WakeEnd == \E who \in Who, from \in Live : WakeEndOf(who, from)

CommandResult ==
  \E who \in Who, from \in {"active", "stopping"}, intent \in Intents :
    LET s == S("CommandResult", who, intent)
    IN  /\ Has(s, "cmd", who, from)
        /\ Commit(processCommand(Result(Move(s, "cmd", who, from, "ending")), intent))

CommandError ==
  \E who \in Who :
    LET s == S("CommandError", who, "")
    IN  /\ Has(s, "cmd", who, "active")
        /\ Commit(commandOnError(Move(s, "cmd", who, "active", "ending")))

CommandEnd ==
  \E who \in Who, from \in Live :
    LET s == S("CommandEnd", who, "")
    IN  /\ Has(s, "cmd", who, from)
        /\ Commit(commandOnEnd(Move(s, "cmd", who, from, "idle")))

ConfirmResult ==
  \E who \in Who, from \in {"active", "stopping"}, reply \in Replies :
    LET s == S("ConfirmResult", who, reply)
    IN  /\ Has(s, "conf", who, from)
        /\ Commit(confirmOnResult(Result(Move(s, "conf", who, from, "ending")), reply))

\* confirmRecognition.onerror only logs.
ConfirmError ==
  \E who \in Who :
    LET s == S("ConfirmError", who, "")
    IN  /\ Has(s, "conf", who, "active")
        /\ Commit(Move(s, "conf", who, "active", "ending"))

ConfirmEnd ==
  \E who \in Who, from \in Live :
    LET s == S("ConfirmEnd", who, "")
    IN  /\ Has(s, "conf", who, from)
        /\ Commit(confirmOnEnd(Move(s, "conf", who, from, "idle")))

----------------------------------------------------------------------------
(* Events of the synthesizer, the timers, the user and the backend *)

\* The utterance being spoken finishes.
UtterEnd ==
  /\ queue # <<>>
  /\ LET s == S("UtterEnd", "cur", Head(queue))
     IN  Commit(onEndOf([s EXCEPT !.queue = Tail(@)], Head(queue)))

\* A setTimeout(startWakeRecognition, ...) of wake onend, command onend or
\* closeConfirmDialog comes due.
TimerFire ==
  /\ timers > 0
  /\ Commit(startWakeRecognition([S("TimerFire", "cur", "") EXCEPT !.timers = @ - 1]))

MuteClick == Commit(muteClick(Click(S("MuteClick", "cur", ""))))

ClearClick == Commit(askForClearAllConfirmation(Click(S("ClearClick", "cur", ""))))

\* The Yes button of the overlay, shown while the dialog is open.
ConfirmYesClick ==
  /\ inConfirmDialog
  /\ Commit(handleConfirmYes(Click(S("ConfirmYesClick", "cur", ""))))

\* The No button, or a click on the overlay outside the box.
ConfirmNoClick ==
  \E where \in {"no", "outside"} :
    /\ inConfirmDialog
    /\ Commit(handleConfirmCancel(Click(S("ConfirmNoClick", "cur", where))))

\* The manual form, a task's checkbox or its Delete button.
UiPost == Commit(sendCommandJson(Click(S("UiPost", "cur", "")), "/ui"))

\* The response of a request: with something to speak (a message, an error, a
\* network failure, a task summary) or with nothing to speak.
Response ==
  \E speaks \in BOOLEAN :
    /\ inflight > 0
    /\ LET s == [S("Response", "cur", IF speaks THEN "speaks" ELSE "silent")
                   EXCEPT !.inflight = @ - 1]
       IN  Commit(IF speaks THEN speak(s, "msg") ELSE s)

Next ==
  \/ WakeResult \/ WakeError \/ WakeEnd
  \/ CommandResult \/ CommandError \/ CommandEnd
  \/ ConfirmResult \/ ConfirmError \/ ConfirmEnd
  \/ UtterEnd \/ TimerFire
  \/ MuteClick \/ ClearClick \/ ConfirmYesClick \/ ConfirmNoClick
  \/ UiPost \/ Response

Spec == Init /\ [][Next]_vars

\* The end event of a wake session that was stopped or has failed; a continuous
\* session that is capturing may go on for ever.
WakeEndDue == \E who \in Who, from \in {"stopping", "ending"} : WakeEndOf(who, from)

\* What the browser guarantees: a due timer fires, an utterance being spoken
\* finishes, a request gets its response, a stopped or failed wake session and
\* every one-shot session (command, confirmation) fires its end event.
Fairness ==
  /\ WF_vars(TimerFire)
  /\ WF_vars(UtterEnd)
  /\ WF_vars(Response)
  /\ WF_vars(WakeEndDue)
  /\ WF_vars(CommandEnd)
  /\ WF_vars(ConfirmEnd)

\* The liveness claims are about a host with both speech APIs.
LiveInit == Init /\ recog /\ synth

LiveSpec == LiveInit /\ [][Next]_vars /\ Fairness

\* The least the restart of the wake session rests on: a due timer fires.
TimerSpec == LiveInit /\ [][Next]_vars /\ WF_vars(TimerFire)

----------------------------------------------------------------------------
(* Transcripts: strings as sequences of characters *)

\* String.prototype.includes
Includes(str, sub) ==
  \/ sub = <<>>
  \/ \E i \in 0..(Len(str) - Len(sub)) :
       str[i + 1] = sub[1] /\ SubSeq(str, i + 1, i + Len(sub)) = sub

\* String.prototype.startsWith
StartsWith(str, sub) == Len(sub) <= Len(str) /\ SubSeq(str, 1, Len(sub)) = sub

\* String.prototype.toLowerCase, on the letters the transcripts are written in.
LowerChar(c) ==
  IF c = "Y" THEN "y" ELSE IF c = "N" THEN "n" ELSE IF c = "A" THEN "a"
  ELSE IF c = "C" THEN "c" ELSE IF c = "H" THEN "h" ELSE IF c = "T" THEN "t"
  ELSE IF c = "D" THEN "d" ELSE IF c = "O" THEN "o" ELSE c

ToLowerCase(str) == [i \in 1..Len(str) |-> LowerChar(str[i])]

RECURSIVE TrimStart(_)
TrimStart(str) ==
  IF str # <<>> /\ Head(str) = " " THEN TrimStart(Tail(str)) ELSE str

RECURSIVE TrimEnd(_)
TrimEnd(str) ==
  IF str # <<>> /\ str[Len(str)] = " " THEN TrimEnd(SubSeq(str, 1, Len(str) - 1))
  ELSE str

\* String.prototype.trim
Trim(str) == TrimEnd(TrimStart(str))

\* The words of a transcript joined by single spaces.
RECURSIVE Join(_)
Join(words) ==
  IF words = <<>> THEN <<>>
  ELSE IF Len(words) = 1 THEN words[1]
  ELSE words[1] \o <<" ">> \o Join(Tail(words))

\* All sequences of 1..n elements of set.
RECURSIVE SeqsUpTo(_, _)
SeqsUpTo(set, n) ==
  IF n = 0 THEN {}
  ELSE LET shorter == SeqsUpTo(set, n - 1)
       IN  {<<w>> : w \in set} \cup shorter
             \cup {<<w>> \o r : w \in set, r \in shorter}

\* What a recognizer may deliver for 1..n of the units spoken: the units joined
\* as they are, or with a space after them.
Delivered(units, n) ==
  {Join(words) \o tail : words \in SeqsUpTo(units, n), tail \in {<<>>, <<" ">>}}

----------------------------------------------------------------------------
(* Replies to the confirmation dialog *)

MaxReplyWords == 2

sConfirm == <<"c", "o", "n", "f", "i", "r", "m">>
sYes == <<"y", "e", "s">>
sYeah == <<"y", "e", "a", "h">>
sSure == <<"s", "u", "r", "e">>
sCancel == <<"c", "a", "n", "c", "e", "l">>
sNo == <<"n", "o">>
sNope == <<"n", "o", "p", "e">>

\* What a user may say to the dialog, besides the phrases themselves.
ReplyWords ==
  {sConfirm, sYes, sYeah, sSure, sCancel, sNo, sNope,
   <<"Y", "e", "s">>, <<"k", "n", "o", "w">>, <<"p", "l", "e", "a", "s", "e">>, <<"o", "k", "a", "y">>}

ReplyTranscripts ==
  Delivered(ReplyWords, MaxReplyWords)

\* The branches of confirmRecognition.onresult.
classifyReply(heard) ==
  LET lower == Trim(ToLowerCase(heard))
  IN  IF \/ Includes(lower, sConfirm) \/ lower = sYes
         \/ Includes(lower, sYeah) \/ Includes(lower, sSure)
        THEN "accept"
      ELSE IF \/ Includes(lower, sCancel) \/ Includes(lower, sNo)
              \/ Includes(lower, sNope)
        THEN "decline"
      ELSE "other"

\* The dialog is open (Clear All or a clear-completed command), its prompt has
\* been spoken and its session is capturing; the user is about to reply.
ReplyInit ==
  /\ recog = TRUE /\ synth = TRUE
  /\ listening = TRUE /\ wakeRunning = FALSE
  /\ inCommandMode = FALSE /\ inConfirmDialog = TRUE
  /\ confirmOnConfirm \in {"clearAll", "clearCompleted"}
  /\ wake = "idle" /\ cmd = "idle" /\ conf = "active"
  /\ orph = NoOrph /\ timers = 0 /\ queue = <<>> /\ inflight = 0
  /\ inputs = 1 /\ resolutions = 0 /\ owed = FALSE /\ restarts = -1
  /\ ev = [NoEv("UtterEnd", "cur", "confirmPrompt")
            EXCEPT !.wasOpen = TRUE, !.started = {"conf"}, !.ran = {"confirmPrompt"}]
  /\ transcript \in ReplyTranscripts
  /\ tasks = <<>>
  /\ response = NoReply
  /\ outcome = "none"
  /\ sortMode = "created"
  /\ request = NoRequest
  /\ out = NoOut

\* confirmRecognition.onresult with the transcript.
ReplyHeard ==
  /\ outcome = "none" /\ conf = "active"
  /\ LET reply == classifyReply(transcript)
         s == S("ConfirmResult", "cur", reply)
     IN  /\ CommitState(confirmOnResult(
                           Result(Move(s, "conf", "cur", "active", "ending")), reply))
         /\ outcome' = reply
         /\ UNCHANGED <<transcript, sortMode, request, tasks, response, out>>

\* After the reply: the utterance spoken ends, the one-shot session ends.
ReplyNext == ReplyHeard \/ (outcome # "none" /\ (UtterEnd \/ ConfirmEnd))

ReplySpec == ReplyInit /\ [][ReplyNext]_vars

----------------------------------------------------------------------------
(* Command interpreter *)

MaxCommandUnits == 2

\* The phrases processCommand tests for.
sAdd == <<"a", "d", "d">>
sRemindMeTo == <<"r", "e", "m", "i", "n", "d", " ", "m", "e", " ", "t", "o">>
sMark == <<"m", "a", "r", "k">>
sDone == <<"d", "o", "n", "e">>
sDelete == <<"d", "e", "l", "e", "t", "e">>
sRemove == <<"r", "e", "m", "o", "v", "e">>
sClearCompleted == <<"c", "l", "e", "a", "r", " ", "c", "o", "m", "p", "l", "e", "t", "e", "d">>
sRemoveCompleted == <<"r", "e", "m", "o", "v", "e", " ", "c", "o", "m", "p", "l", "e", "t", "e", "d">>
sClearAll == <<"c", "l", "e", "a", "r", " ", "a", "l", "l">>
sRemoveAll == <<"r", "e", "m", "o", "v", "e", " ", "a", "l", "l">>
sListAllTasks == <<"l", "i", "s", "t", " ", "a", "l", "l", " ", "t", "a", "s", "k", "s">>
sWhatAreMyTasks == <<"w", "h", "a", "t", " ", "a", "r", "e", " ", "m", "y", " ", "t", "a", "s", "k", "s">>
sListPending == <<"l", "i", "s", "t", " ", "p", "e", "n", "d", "i", "n", "g">>
sPendingTasks == <<"p", "e", "n", "d", "i", "n", "g", " ", "t", "a", "s", "k", "s">>
sListCompleted == <<"l", "i", "s", "t", " ", "c", "o", "m", "p", "l", "e", "t", "e", "d">>
sCompletedTasks == <<"c", "o", "m", "p", "l", "e", "t", "e", "d", " ", "t", "a", "s", "k", "s">>
sSortByPriority == <<"s", "o", "r", "t", " ", "b", "y", " ", "p", "r", "i", "o", "r", "i", "t", "y">>
sOrderByPriority == <<"o", "r", "d", "e", "r", " ", "b", "y", " ", "p", "r", "i", "o", "r", "i", "t", "y">>
sSortByCategory == <<"s", "o", "r", "t", " ", "b", "y", " ", "c", "a", "t", "e", "g", "o", "r", "y">>
sOrderByCategory == <<"o", "r", "d", "e", "r", " ", "b", "y", " ", "c", "a", "t", "e", "g", "o", "r", "y">>
sSortByDue == <<"s", "o", "r", "t", " ", "b", "y", " ", "d", "u", "e">>
sSortByDate == <<"s", "o", "r", "t", " ", "b", "y", " ", "d", "a", "t", "e">>
sSortByDeadline == <<"s", "o", "r", "t", " ", "b", "y", " ", "d", "e", "a", "d", "l", "i", "n", "e">>
sOrderByDue == <<"o", "r", "d", "e", "r", " ", "b", "y", " ", "d", "u", "e">>
sOrderByDate == <<"o", "r", "d", "e", "r", " ", "b", "y", " ", "d", "a", "t", "e">>
sOrderByDeadline == <<"o", "r", "d", "e", "r", " ", "b", "y", " ", "d", "e", "a", "d", "l", "i", "n", "e">>
sSortByCreated == <<"s", "o", "r", "t", " ", "b", "y", " ", "c", "r", "e", "a", "t", "e", "d">>
sSortByAdded == <<"s", "o", "r", "t", " ", "b", "y", " ", "a", "d", "d", "e", "d">>
sOrderByCreated == <<"o", "r", "d", "e", "r", " ", "b", "y", " ", "c", "r", "e", "a", "t", "e", "d">>
sOrderByAdded == <<"o", "r", "d", "e", "r", " ", "b", "y", " ", "a", "d", "d", "e", "d">>

\* What a user may say to the command session: pieces of the phrases, a task
\* name, a filler word, in any order.
uAdd == <<"a", "d", "d">>
uAddCapital == <<"A", "d", "d">>
uRemindMeTo == <<"r", "e", "m", "i", "n", "d", " ", "m", "e", " ", "t", "o">>
uMark == <<"m", "a", "r", "k">>
uMilkDone == <<"m", "i", "l", "k", " ", "d", "o", "n", "e">>
uMilkAsDone == <<"m", "i", "l", "k", " ", "a", "s", " ", "d", "o", "n", "e">>
uDelete == <<"d", "e", "l", "e", "t", "e">>
uRemove == <<"r", "e", "m", "o", "v", "e">>
uClear == <<"c", "l", "e", "a", "r">>
uClearAll == <<"c", "l", "e", "a", "r", " ", "a", "l", "l">>
uCompleted == <<"c", "o", "m", "p", "l", "e", "t", "e", "d">>
uAll == <<"a", "l", "l">>
uList == <<"l", "i", "s", "t">>
uListAllTasks == <<"l", "i", "s", "t", " ", "a", "l", "l", " ", "t", "a", "s", "k", "s">>
uWhatAreMyTasks == <<"w", "h", "a", "t", " ", "a", "r", "e", " ", "m", "y", " ", "t", "a", "s", "k", "s">>
uPending == <<"p", "e", "n", "d", "i", "n", "g">>
uTasks == <<"t", "a", "s", "k", "s">>
uSortBy == <<"s", "o", "r", "t", " ", "b", "y">>
uOrderBy == <<"o", "r", "d", "e", "r", " ", "b", "y">>
uPriority == <<"p", "r", "i", "o", "r", "i", "t", "y">>
uCategory == <<"c", "a", "t", "e", "g", "o", "r", "y">>
uDue == <<"d", "u", "e">>
uDate == <<"d", "a", "t", "e">>
uDeadline == <<"d", "e", "a", "d", "l", "i", "n", "e">>
uCreated == <<"c", "r", "e", "a", "t", "e", "d">>
uAdded == <<"a", "d", "d", "e", "d">>
uMilk == <<"m", "i", "l", "k">>
uPlease == <<"p", "l", "e", "a", "s", "e">>

CommandUnits ==
  {uAdd, uAddCapital, uRemindMeTo, uMark, uMilkDone, uMilkAsDone, uDelete, 
   uRemove, uClear, uClearAll, uCompleted, uAll, uList, uListAllTasks, 
   uWhatAreMyTasks, uPending, uTasks, uSortBy, uOrderBy, uPriority, 
   uCategory, uDue, uDate, uDeadline, uCreated, uAdded, uMilk, uPlease}

\* The recognizer may also deliver nothing but an empty or blank transcript.
CommandTranscripts ==
  {<<>>, <<" ">>}
    \cup Delivered(CommandUnits, MaxCommandUnits)

EndsWith(str, sub) ==
  Len(sub) <= Len(str) /\ SubSeq(str, Len(str) - Len(sub) + 1, Len(str)) = sub

\* str from position i on.
From(str, i) == SubSeq(str, i, Len(str))

\* lower.match(/^mark\s+(.+?)\s+(?:as\s+)?done$/i): "mark", white space, at least
\* one character, white space, "done" at the end.
markMatch(lower) ==
  /\ StartsWith(lower, sMark \o <<" ">>)
  /\ EndsWith(lower, <<" ">> \o sDone)
  /\ Len(lower) >= Len(sMark) + Len(sDone) + 3

\* lower.match(/^(?:delete|remove)\s+(.+)$/i)
deleteMatch(lower) ==
  \E verb \in {sDelete, sRemove} :
    StartsWith(lower, verb \o <<" ">>) /\ Len(lower) >= Len(verb) + 2

\* An interpreter that looks for "clear all" before anything else.
interpretClearFirst(heard) ==
  LET command == Trim(heard)
      lower == ToLowerCase(command)
  IN  IF heard = <<>> \/ command = <<>> THEN "Ignored"
      ELSE IF Includes(lower, sClearAll) \/ Includes(lower, sRemoveAll)
        THEN "ClearAll"
      ELSE IF StartsWith(lower, sAdd \o <<" ">>) THEN "AddTask"
      ELSE "Unrecognized"

\* The branch processCommand takes for a transcript, tested in its order.
branchOf(heard, command, lower) ==
      IF heard = <<>> \/ command = <<>> THEN "Ignored"
      ELSE IF StartsWith(lower, sAdd \o <<" ">>)
        THEN IF Trim(From(command, Len(sAdd) + 1)) = <<>>
               THEN "PromptMissing" ELSE "AddTask"
      ELSE IF StartsWith(lower, sRemindMeTo \o <<" ">>)
        THEN IF Trim(From(command, Len(sRemindMeTo) + 1)) = <<>>
               THEN "PromptMissing" ELSE "AddTask"
      ELSE IF markMatch(lower) THEN "MarkDone"
      ELSE IF deleteMatch(lower) THEN "DeleteByName"
      ELSE IF Includes(lower, sClearCompleted) \/ Includes(lower, sRemoveCompleted)
        THEN "ClearCompleted"
      ELSE IF Includes(lower, sClearAll) \/ Includes(lower, sRemoveAll)
        THEN "ClearAll"
      ELSE IF Includes(lower, sListAllTasks) \/ Includes(lower, sWhatAreMyTasks)
        THEN "ListAll"
      ELSE IF Includes(lower, sListPending) \/ Includes(lower, sPendingTasks)
        THEN "ListPending"
      ELSE IF Includes(lower, sListCompleted) \/ Includes(lower, sCompletedTasks)
        THEN "ListCompleted"
      ELSE IF Includes(lower, sSortByPriority) \/ Includes(lower, sOrderByPriority)
        THEN "SortPriority"
      ELSE IF Includes(lower, sSortByCategory) \/ Includes(lower, sOrderByCategory)
        THEN "SortCategory"
      ELSE IF \/ Includes(lower, sSortByDue) \/ Includes(lower, sSortByDate)
              \/ Includes(lower, sSortByDeadline) \/ Includes(lower, sOrderByDue)
              \/ Includes(lower, sOrderByDate) \/ Includes(lower, sOrderByDeadline)
        THEN "SortDue"
      ELSE IF \/ Includes(lower, sSortByCreated) \/ Includes(lower, sSortByAdded)
              \/ Includes(lower, sOrderByCreated) \/ Includes(lower, sOrderByAdded)
        THEN "SortCreated"
      ELSE "Unrecognized"

\* The branch processCommand takes for a transcript: command is the trimmed
\* transcript, lower its lower-case form.
interpret(heard) == branchOf(heard, Trim(heard), ToLowerCase(Trim(heard)))

sAs == <<"a", "s">>

AllSpaces(str) == \A k \in 1..Len(str) : str[k] = " "

\* str matches /^\s+(?:as\s+)?done$/, the end of the mark pattern.
markTail(str) ==
  \E n \in 1..Len(str) :
    /\ AllSpaces(SubSeq(str, 1, n))
    /\ LET r == From(str, n + 1)
       IN  \/ r = sDone
           \/ /\ StartsWith(r, sAs)
              /\ \E m \in 1..(Len(r) - Len(sAs)) :
                   /\ AllSpaces(SubSeq(r, Len(sAs) + 1, Len(sAs) + m))
                   /\ From(r, Len(sAs) + m + 1) = sDone

\* The places <<i, j>> the group (.+?) of the mark pattern may take: "mark" and
\* white space before i, the end of the pattern after j.
markGroups(lower) ==
  {g \in (1..Len(lower)) \X (1..Len(lower)) :
     /\ Len(sMark) + 2 <= g[1] /\ g[1] <= g[2]
     /\ StartsWith(lower, sMark)
     /\ AllSpaces(SubSeq(lower, Len(sMark) + 1, g[1] - 1))
     /\ markTail(From(lower, g[2] + 1))}

\* A name that keeps all between "mark" and the final "done".
markNameKeepsAs(lower) ==
  Trim(SubSeq(lower, Len(sMark) + 1, Len(lower) - Len(sDone)))

\* markMatch[1].trim(): \s+ is greedy (the group starts as late as it can), the
\* group is lazy (it ends as early as it can).
groupStart(groups) ==
  CHOOSE a \in {g[1] : g \in groups} : \A g \in groups : g[1] <= a

groupEnd(groups, i) ==
  CHOOSE b \in {g[2] : g \in {h \in groups : h[1] = i}} :
    \A g \in groups : g[1] = i => b <= g[2]

groupText(lower, groups, i) == Trim(SubSeq(lower, i, groupEnd(groups, i)))

markName(lower) ==
  groupText(lower, markGroups(lower), groupStart(markGroups(lower)))

\* deleteMatch[1].trim(): all that follows the verb and the white space.
deleteName(lower) ==
  LET verb == IF StartsWith(lower, sDelete) THEN sDelete ELSE sRemove
  IN  Trim(From(lower, Len(verb) + 1))

\* A sort branch that takes "date" and "deadline" for the creation date.
sortModeOfDueAsCreated(branch, mode) ==
  IF branch = "SortPriority" THEN "priority"
  ELSE IF branch = "SortCategory" THEN "category"
  ELSE IF branch \in {"SortDue", "SortCreated"} THEN "created"
  ELSE mode

\* A branch that is no sort branch puts the list back in creation order.
sortModeOfResets(branch, mode) ==
  IF branch = "SortPriority" THEN "priority"
  ELSE IF branch = "SortCategory" THEN "category"
  ELSE IF branch = "SortDue" THEN "due"
  ELSE "created"

\* sortMode after the branch has run.
sortModeOf(branch, mode) ==
  IF branch = "SortPriority" THEN "priority"
  ELSE IF branch = "SortCategory" THEN "category"
  ELSE IF branch = "SortDue" THEN "due"
  ELSE IF branch = "SortCreated" THEN "created"
  ELSE mode

\* refreshTasks() right after sortMode was set: fetch(`/tasks?sort=${sortMode}`)
refreshTasks(mode) ==
  [method |-> "GET", path |-> "/tasks", key |-> "sort", value |-> <<mode>>]

\* The fetch of a branch, if any: the POST of sendCommandJson with its
\* payload, the GET of a list helper, the GET of refreshTasks with the sort mode
\* just set.
requestFor(branch, command, lower) ==
      IF branch = "AddTask"
        THEN [method |-> "POST", path |-> "/add", key |-> "task",
              value |-> IF StartsWith(lower, sAdd \o <<" ">>)
                          THEN Trim(From(command, Len(sAdd) + 1))
                          ELSE Trim(From(command, Len(sRemindMeTo) + 1))]
      ELSE IF branch = "MarkDone"
        THEN [method |-> "POST", path |-> "/mark-by-name", key |-> "name",
              value |-> markName(lower)]
      ELSE IF branch = "DeleteByName"
        THEN [method |-> "POST", path |-> "/delete-by-name", key |-> "name",
              value |-> deleteName(lower)]
      ELSE IF branch \in {"ListAll", "ListPending", "ListCompleted"}
        THEN [method |-> "GET", path |-> "/tasks", key |-> "none", value |-> <<>>]
      ELSE IF branch \in {"SortPriority", "SortCategory", "SortDue", "SortCreated"}
        THEN refreshTasks(sortModeOf(branch, "none"))
      ELSE NoRequest

\* The fetch a transcript leads to: command is the trimmed transcript, lower
\* its lower-case form.
requestOf(heard) ==
  requestFor(interpret(heard), Trim(heard), ToLowerCase(Trim(heard)))

\* What the branch does to the sessions, the dialog and the channels.
IntentOf(branch) ==
  IF branch = "Ignored" THEN "empty"
  ELSE IF branch \in {"AddTask", "MarkDone", "DeleteByName"} THEN "post"
  ELSE IF branch = "ClearCompleted" THEN "clearCompleted"
  ELSE IF branch = "ClearAll" THEN "clearAll"
  ELSE IF branch \in {"ListAll", "ListPending", "ListCompleted"} THEN "list"
  ELSE "say"

\* A wake detection was made, its prompt has ended and the command session
\* was started; the user may have muted since (stop() requested).
CommandReady ==
  /\ recog = TRUE /\ synth = TRUE
  /\ listening \in BOOLEAN /\ wakeRunning = FALSE
  /\ inCommandMode = TRUE /\ inConfirmDialog = FALSE
  /\ confirmOnConfirm = "none"
  /\ wake = "idle" /\ cmd = (IF listening THEN "active" ELSE "stopping")
  /\ conf = "null"
  /\ orph = NoOrph /\ timers = 0 /\ queue = <<>> /\ inflight = 0
  /\ inputs = (IF listening THEN 1 ELSE 2) /\ resolutions = 0 /\ owed = FALSE
  /\ restarts = -1
  /\ ev = IF listening
            THEN [NoEv("UtterEnd", "cur", "yes")
                    EXCEPT !.started = {"cmd"}, !.ran = {"yes"}]
            ELSE NoEv("MuteClick", "cur", "")
  /\ outcome = "none"
  /\ sortMode = "created"
  /\ request = NoRequest
  /\ out = NoOut

CommandInit ==
  CommandReady /\ transcript \in CommandTranscripts /\ tasks = <<>> /\ response = NoReply

\* commandRecognition.onresult with the transcript.
CommandHeard ==
  \E from \in {"active", "stopping"} :
    /\ outcome = "none" /\ cmd = from
    /\ \E branch \in {interpret(transcript)} :
         /\ CommitState(processCommand(
              Result(Move(S("CommandResult", "cur", branch), "cmd", "cur", from,
                          "ending")),
              IntentOf(branch)))
         /\ outcome' = branch
         /\ sortMode' = sortModeOf(branch, sortMode)
         /\ request' = requestOf(transcript)
         /\ UNCHANGED <<transcript, tasks, response, out>>

CommandNext == CommandHeard

CommandSpec == CommandInit /\ [][CommandNext]_vars

----------------------------------------------------------------------------
(* Listing helpers *)

MaxTasks == 2

\* Tasks the backend may hold: one pending, one completed.
TaskPool == {[name |-> "milk", done |-> FALSE], [name |-> "eggs", done |-> TRUE]}

TaskCollections == {<<>>} \cup SeqsUpTo(TaskPool, MaxTasks)

IsPending(task) == ~task.done

IsCompleted(task) == task.done

\* tasks.map((t) => t.name)
NamesOf(list) == [i \in 1..Len(list) |-> list[i].name]

\* A rejected fetch or a body that is not JSON ends in the catch block.
FetchFailed == [ok |-> FALSE, body |-> <<>>]

Fetched(list) == [ok |-> TRUE, body |-> list]

\* A listAllTasks without the test for an empty collection.
listAllTasksNoEmptyTest(fetched) ==
  IF ~fetched.ok
    THEN [NoOut EXCEPT !.spoken.text = "Failed to fetch tasks."]
    ELSE [NoOut EXCEPT !.spoken = [text |-> "You have N tasks: NAMES",
                                   count |-> Len(fetched.body),
                                   names |-> NamesOf(fetched.body)]]

\* What each helper speaks and shows for what the fetch brought.
listAllTasks(fetched) ==
  IF ~fetched.ok
    THEN [NoOut EXCEPT !.spoken.text = "Failed to fetch tasks."]
  ELSE IF Len(fetched.body) = 0
    THEN [NoOut EXCEPT !.spoken.text = "You have no tasks.",
                       !.status = "No tasks found."]
  ELSE [NoOut EXCEPT !.spoken = [text |-> "You have N tasks: NAMES",
                                 count |-> Len(fetched.body),
                                 names |-> NamesOf(fetched.body)]]

listPendingTasks(fetched) ==
  LET pending == SelectSeq(fetched.body, IsPending)
  IN  IF ~fetched.ok
        THEN [NoOut EXCEPT !.spoken.text = "Failed to fetch tasks."]
      ELSE IF Len(pending) = 0
        THEN [NoOut EXCEPT !.spoken.text = "You have no pending tasks.",
                           !.status = "No pending tasks."]
      ELSE [NoOut EXCEPT !.spoken = [text |-> "You have N pending tasks: NAMES",
                                     count |-> Len(pending),
                                     names |-> NamesOf(pending)]]

listCompletedTasks(fetched) ==
  LET completed == SelectSeq(fetched.body, IsCompleted)
  IN  IF ~fetched.ok
        THEN [NoOut EXCEPT !.spoken.text = "Failed to fetch tasks."]
      ELSE IF Len(completed) = 0
        THEN [NoOut EXCEPT !.spoken.text = "You have no completed tasks.",
                           !.status = "No completed tasks."]
      ELSE [NoOut EXCEPT !.spoken = [text |-> "You have N completed tasks: NAMES",
                                     count |-> Len(completed),
                                     names |-> NamesOf(completed)]]

ListIntents == {"ListAll", "ListPending", "ListCompleted"}

\* What a user may say to have tasks listed.
ListUnits ==
  {uList, uListAllTasks, uWhatAreMyTasks, uPending, uCompleted, uTasks, uMilk, uPlease}

ListTranscripts ==
  Delivered(ListUnits, MaxCommandUnits)

ListInit ==
  /\ CommandReady /\ transcript \in ListTranscripts
  /\ tasks \in TaskCollections /\ response = NoReply

\* The fetch of the list helper that was called comes back, or fails.
TasksResponse ==
  \E ok \in BOOLEAN :
    /\ outcome \in ListIntents /\ inflight > 0 /\ out = NoOut
    /\ LET s == [S("Response", "cur", IF ok THEN "tasks" ELSE "fails")
                   EXCEPT !.inflight = @ - 1]
           fetched == IF ok THEN Fetched(tasks) ELSE FetchFailed
       IN  /\ CommitState(speak(s, "msg"))
           /\ out' = IF outcome = "ListAll" THEN listAllTasks(fetched)
                     ELSE IF outcome = "ListPending" THEN listPendingTasks(fetched)
                     ELSE listCompletedTasks(fetched)
           /\ UNCHANGED <<transcript, outcome, sortMode, request, tasks, response>>

ListNext == CommandHeard \/ TasksResponse

ListSpec == ListInit /\ [][ListNext]_vars

----------------------------------------------------------------------------
(* Sort mode *)

\* What a user may say to have the list sorted.
SortUnits ==
  {uSortBy, uOrderBy, uPriority, uCategory, uDue, uDate, uDeadline, uCreated,
   uAdded, uMilk, uPlease, uAdd}

SortTranscripts ==
  Delivered(SortUnits, MaxCommandUnits)

SortInit ==
  CommandReady /\ transcript \in SortTranscripts /\ tasks = <<>> /\ response = NoReply

\* A click on an option of the Sort By dropdown.
SortClick ==
  \E opt \in SortModes :
    /\ CommitState(Click(S("SortClick", "cur", opt)))
    /\ sortMode' = opt
    /\ request' = refreshTasks(opt)
    /\ UNCHANGED <<transcript, outcome, tasks, response, out>>

SortNext == CommandHeard \/ SortClick

SortSpec == SortInit /\ [][SortNext]_vars

----------------------------------------------------------------------------
(* Responses to sendCommandJson *)

\* fetch rejects: the catch block.
NetworkFailure == [kind |-> "network", ok |-> FALSE, message |-> "none", error |-> "none"]

\* A response with a JSON body {message?, error?}, with a success status or not.
JsonReplies ==
  [kind : {"json"}, ok : BOOLEAN, message : {"none", "Done."},
   error : {"none", "No such task."}]

PostReplies == {NetworkFailure} \cup JsonReplies

Say(text) == [text |-> text, count |-> 0, names |-> <<>>]

\* A continuation that refreshes the list whatever the status was.
sendCommandJsonThenAlwaysRefreshes(res, mode) ==
  IF res.kind = "network"
    THEN [spoken |-> Say("Network error."), status |-> "Network error.",
          refreshed |-> "none", returned |-> "null"]
  ELSE IF ~res.ok
    THEN LET err == IF res.error # "none" THEN res.error ELSE "Unknown error"
         IN  [spoken |-> Say(err), status |-> err, refreshed |-> mode,
              returned |-> "null"]
  ELSE [spoken |-> Say(res.message), status |-> "none", refreshed |-> mode,
        returned |-> "data"]

\* sendCommandJson after its await: what it speaks, shows, fetches and returns.
sendCommandJsonThen(res, mode) ==
  IF res.kind = "network"
    THEN [spoken |-> Say("Network error."), status |-> "Network error.",
          refreshed |-> "none", returned |-> "null"]
  ELSE IF ~res.ok
    THEN LET err == IF res.error # "none" THEN res.error ELSE "Unknown error"
         IN  [spoken |-> Say(err), status |-> err, refreshed |-> "none",
              returned |-> "null"]
  ELSE [spoken |-> Say(res.message), status |-> "none", refreshed |-> mode,
        returned |-> "data"]

\* What a user may say to have a task added, marked or deleted.
PostUnits ==
  {uAdd, uAddCapital, uRemindMeTo, uMark, uMilkDone, uMilkAsDone, uDelete, uRemove,
   uMilk, uPlease}

PostTranscripts ==
  Delivered(PostUnits, MaxCommandUnits)

PostInit ==
  /\ CommandReady /\ transcript \in PostTranscripts
  /\ tasks = <<>> /\ response \in PostReplies

\* The POST of the command interpreter is answered, or fails.
PostResponse ==
  /\ request.method = "POST" /\ inflight > 0 /\ out = NoOut
  /\ LET s == [S("Response", "cur", response.kind) EXCEPT !.inflight = @ - 1]
         done == sendCommandJsonThen(response, sortMode)
     IN  /\ CommitState(IF done.spoken.text # "none" THEN speak(s, "msg") ELSE s)
         /\ out' = done
         /\ UNCHANGED <<transcript, outcome, sortMode, request, tasks, response>>

PostNext == CommandHeard \/ PostResponse

PostSpec == PostInit /\ [][PostNext]_vars

----------------------------------------------------------------------------
(* Wake word *)

MaxWakeWords == 3

wakeVariants ==
  {<<"h", "e", "y", " ", "t", "o", " ", "d", "o">>,
   <<"h", "e", "y", " ", "t", "o", "d", "o">>,
   <<"h", "e", "y", " ", "t", "o", "-", "d", "o">>,
   <<"h", "e", "y", " ", "t", "o", "d", "u">>,
   <<"h", "e", "y", " ", "t", "u", "d", "u">>,
   <<"h", "e", "y", " ", "t", "u", "t", "u">>,
   <<"h", "e", "y", " ", "t", "a", "d", "o">>,
   <<"h", "e", "y", " ", "t", "w", "o", " ", "d", "o">>,
   <<"h", "e", "y", " ", "2", " ", "d", "o">>,
   <<"h", "e", "l", "l", "o", " ", "t", "o", " ", "d", "o">>,
   <<"h", "e", "l", "l", "o", " ", "t", "o", "d", "o">>,
   <<"h", "e", "l", "l", "o", " ", "t", "o", "-", "d", "o">>,
   <<"h", "a", "t", "e", " ", "t", "o", " ", "d", "o">>,
   <<"h", "a", "t", "e", " ", "t", "o", "d", "o">>,
   <<"h", "a", "t", "e", " ", "t", "o", "-", "d", "o">>,
   <<"h", "a", "t", "e", " ", "o", "d", "o">>,
   <<"h", "a", "t", "e", " ", "o", "d", "o", "o">>,
   <<"h", "a", "t", "e", " ", "t", "o", "d", "u">>,
   <<"h", "a", "t", "e", " ", "t", "u", "d", "u">>,
   <<"h", "e", "y", " ", "d", "o">>,
   <<"h", "e", "y", " ", "t", "o">>,
   <<"h", "e", "y", " ", "o", "d", "o">>}

\* .replace(/[.,!?]/g, " ")
NoPunctuation(str) ==
  [i \in 1..Len(str) |-> IF str[i] \in {".", ",", "!", "?"} THEN " " ELSE str[i]]

\* .replace(/\s+/g, " ")
RECURSIVE Collapse(_)
Collapse(str) ==
  IF Len(str) < 2 THEN str
  ELSE IF str[1] = " " /\ str[2] = " " THEN Collapse(Tail(str))
  ELSE <<str[1]>> \o Collapse(Tail(str))

\* A match that takes the transcript as it came.
wakeWordHeardAsIs(rawTranscript) ==
  /\ rawTranscript # <<>>
  /\ \E v \in wakeVariants : Includes(rawTranscript, v)

wakeWordHeard(rawTranscript) ==
  /\ rawTranscript # <<>>
  /\ LET normal == Trim(Collapse(NoPunctuation(ToLowerCase(rawTranscript))))
     IN  \E v \in wakeVariants : Includes(normal, v)

\* What the wake session may hear.
wHey == <<"h", "e", "y">>
wHeyCapital == <<"H", "e", "y">>
wHeyComma == <<"h", "e", "y", ",">>
wTo == <<"t", "o">>
wToCapital == <<"T", "O">>
wDo == <<"d", "o">>
wDoBang == <<"d", "o", "!">>
wTodo == <<"t", "o", "d", "o">>
wHate == <<"h", "a", "t", "e">>
wOdo == <<"o", "d", "o">>
wHello == <<"h", "e", "l", "l", "o">>
wDay == <<"d", "a", "y">>
wSpace == <<" ">>

WakeWords ==
  {wHey, wHeyCapital, wHeyComma, wTo, wToCapital, wDo, wDoBang, wTodo, wHate,
   wOdo, wHello, wDay, wSpace}

\* The recognizer may also deliver an empty transcript.
WakeTranscripts ==
  {<<>>} \cup Delivered(WakeWords, MaxWakeWords)

\* The page has loaded on a host with both speech APIs: the wake session listens.
WakeInit ==
  /\ recog = TRUE /\ synth = TRUE
  /\ listening = TRUE /\ wakeRunning = TRUE
  /\ inCommandMode = FALSE /\ inConfirmDialog = FALSE
  /\ confirmOnConfirm = "none"
  /\ wake = "active" /\ cmd = "idle" /\ conf = "null"
  /\ orph = NoOrph /\ timers = 0 /\ queue = <<>> /\ inflight = 0
  /\ inputs = 0 /\ resolutions = 0 /\ owed = FALSE /\ restarts = -1
  /\ ev = NoEv("Init", "cur", "")
  /\ transcript \in WakeTranscripts
  /\ outcome = "none" /\ sortMode = "created" /\ request = NoRequest
  /\ tasks = <<>> /\ response = NoReply /\ out = NoOut

\* wakeRecognition.onresult with the transcript, trimmed.
WakeHeard ==
  /\ outcome = "none" /\ wake = "active"
  /\ LET heard == wakeWordHeard(Trim(transcript))
         s == S("WakeResult", "cur", IF heard THEN "heard" ELSE "noise")
     IN  /\ CommitState(wakeOnResult(Result(s), heard))
         /\ outcome' = IF heard THEN "heard" ELSE "noise"
         /\ UNCHANGED <<transcript, sortMode, request, tasks, response, out>>

\* After the result: the prompt ends, the stopped wake session ends.
WakeNext == WakeHeard \/ (outcome # "none" /\ (UtterEnd \/ WakeEnd))

WakeSpec == WakeInit /\ [][WakeNext]_vars

----------------------------------------------------------------------------
(* What the claims speak of *)

SessionState(k) == IF k = "wake" THEN wake ELSE IF k = "cmd" THEN cmd ELSE conf

\* The session of kind k is running: started, not ended, no stop requested.
Running(k) == SessionState(k) = "active"

\* An utterance with this completion callback is being spoken or waits to be
\* spoken.
InFlight(text) == \E i \in 1..Len(queue) : queue[i] = text

\* Both speech APIs are there.
FullHost == recog /\ synth

\* C1: in every reachable state at most one of the wake session, the command
\* session and the confirmation session is running.
C1_AtMostOneSessionRunning ==
  FullHost => Cardinality({k \in Kinds : Running(k)}) <= 1

\* C2: while the confirmation dialog is open neither the wake session nor the
\* command session is running, and no handler starts one of them.
C2_DialogOwnsCapture ==
  FullHost /\ inConfirmDialog =>
    /\ ~Running("wake")
    /\ ~Running("cmd")
    /\ ev.started \cap {"wake", "cmd"} = {}

\* C3: the wake prompt is spoken only by a wake detection, which leaves the
\* wake session stopped and does not start the command session; the command
\* session's start() is called only by the completion of a "Yes?" prompt.
C3_PromptBeforeCommand ==
  /\ "yes" \in ev.said =>
       /\ ev.act = "WakeResult" /\ ev.detected
       /\ ~wakeRunning /\ ~Running("wake")
       /\ "cmd" \notin ev.started
  /\ "cmd" \in ev.started => ev.act = "UtterEnd" /\ ev.arg = "yes"

\* C4: the confirmation session is never running while the dialog's re-prompt
\* is in flight (the onend restart does not re-arm it under the re-prompt).
C4_NoCaptureDuringReprompt ==
  FullHost => ~(Running("conf") /\ InFlight("reprompt"))

AcceptStep ==
  \/ ev.act = "ConfirmYesClick"
  \/ ev.act = "ConfirmResult" /\ ev.arg = "accept"

DeclineStep ==
  \/ ev.act = "ConfirmNoClick"
  \/ ev.act = "ConfirmResult" /\ ev.arg = "decline"

PathOf(closure) ==
  IF closure = "clearAll" THEN "/clear"
  ELSE IF closure = "clearCompleted" THEN "/clear-completed"
  ELSE "none"

\* C5: POST /clear and POST /clear-completed are sent only by an accept of an
\* open confirmation dialog, one that was opened for that action.
C5_ClearOnlyAfterAccept ==
  FullHost /\ ev.post \in {"/clear", "/clear-completed"} =>
    /\ AcceptStep
    /\ ev.wasOpen
    /\ ev.post = PathOf(confirmOnConfirm)

\* C6: with the dialog open, an accept closes it and invokes onConfirm (for
\* Clear All: POST /clear); a decline closes it, speaks the acknowledgement,
\* invokes onCancel, and neither invokes onConfirm nor sends a request.
C6_AcceptAndDecline ==
  /\ AcceptStep /\ ev.wasOpen =>
       /\ ~inConfirmDialog /\ ev.closed = 1
       /\ ev.onConfirm = 1 /\ ev.onCancel = 0
       /\ ev.post = PathOf(confirmOnConfirm) /\ ev.post # "none"
  /\ DeclineStep /\ ev.wasOpen =>
       /\ ~inConfirmDialog /\ ev.closed = 1
       /\ "cancelAck" \in ev.said
       /\ ev.onCancel = 1 /\ ev.onConfirm = 0
       /\ ev.post = "none"

\* A spoken accept of an open Clear All dialog has sent POST /clear.
C6_Witness ==
  /\ ev.act = "ConfirmResult" /\ ev.arg = "accept" /\ ev.wasOpen
  /\ ev.post = "/clear" /\ ev.onConfirm = 1 /\ ~inConfirmDialog

\* C7: onConfirm and onCancel of one opened confirmation are invoked at most
\* once in total.
C7_ResolvedAtMostOnce ==
  FullHost => resolutions <= 1

\* C8: while listening is false every session is stopped by the mute click and
\* no handler starts a session.
C8_MutedMeansSilent ==
  FullHost /\ ~listening =>
    /\ ev.started = {}
    /\ (ev.act = "MuteClick" => \A k \in Kinds : ~Running(k))

\* C9: a wake-phrase result delivered while listening is false is no detection.
C9_NoDetectionWhileMuted ==
  FullHost /\ ~listening /\ ev.act = "WakeResult" => ~ev.detected

\* Nothing is pending that could still start the wake session: no timer, no
\* live session object, no utterance with a callback.
Quiescent ==
  /\ timers = 0
  /\ wake = "idle" /\ cmd = "idle" /\ conf \in {"null", "idle"}
  /\ orph = NoOrph
  /\ \A i \in 1..Len(queue) : queue[i] = "plain"

\* C10: a close with listening disabled schedules no start; a close with
\* listening enabled is followed by a start of the wake session: the start is
\* never lost (still awaited when nothing is pending any more).
C10_CloseResumesWake ==
  FullHost =>
    /\ ev.closed > 0 /\ ~listening => ev.scheduled = 0
    /\ ~(owed /\ listening /\ ~inConfirmDialog /\ Quiescent)

\* C11: the end of the command session clears inCommandMode and, with listening
\* on and no dialog open, leads to the wake session running (unless the user
\* mutes or a dialog opens meanwhile).
C11_CommandEndResumesWake ==
  /\ [](ev.act = "CommandEnd" => ~inCommandMode)
  /\ (ev.act = "CommandEnd" /\ listening /\ ~inConfirmDialog)
        ~> (Running("wake") \/ ~listening \/ inConfirmDialog)

\* The wake session is capturing and no command is awaited.
AwaitingWake == Running("wake") /\ ~inCommandMode

\* C12: with listening on and no dialog open the system always comes back to
\* AwaitingWake (unless the user mutes or a dialog opens meanwhile).
C12_NoDeadlock ==
  (FullHost /\ listening /\ ~inConfirmDialog)
    ~> (AwaitingWake \/ ~listening \/ inConfirmDialog)

\* C13: an end of the current wake session with listening on, no command
\* awaited and no dialog open leads to the wake session running again (unless
\* the user mutes or a dialog opens meanwhile).
C13_WakeRestarted ==
  (/\ FullHost /\ ev.act = "WakeEnd" /\ ev.who = "cur"
   /\ listening /\ ~inCommandMode /\ ~inConfirmDialog)
    ~> (Running("wake") \/ ~listening \/ inConfirmDialog)

\* The wake session has ended in AwaitingWake and its onend has scheduled the
\* restart.
C13_Witness ==
  /\ FullHost /\ ev.act = "WakeEnd" /\ ev.who = "cur"
  /\ listening /\ ~inCommandMode /\ ~inConfirmDialog
  /\ wake = "idle" /\ ~wakeRunning /\ ev.scheduled = 1 /\ timers > 0

\* The utterances spoken through speak(text, onEnd) with a callback.
SpeakCallbacks == {"confirmPrompt", "reprompt"}

\* C14: the callback of speak(text, onEnd) runs exactly once: in the call itself
\* when speech output is unavailable, otherwise at the end of the utterance and
\* at no other time; it is never dropped by a later speak() made while the
\* dialog that waits for it stays open.
C14_CallbackExactlyOnce ==
  /\ FullHost /\ inConfirmDialog /\ ev.opened = "none" =>
       ev.dropped \cap SpeakCallbacks = {}
  /\ ~synth => \A text \in ev.said \cap SpeakCallbacks : text \in ev.ran
  /\ synth => \A cb \in ev.ran : ev.act = "UtterEnd" /\ ev.arg = cb

\* C15: at most one utterance is being spoken or waits in the output channel.
C15_OneUtteranceInFlight == Len(queue) <= 1

\* C16: on a host with recognition and without speech output, a wake detection
\* starts the command session and an opened dialog starts the confirmation
\* session, in the same handler run.
C16_SpeechUnavailableNeverBlocks ==
  recog /\ ~synth =>
    /\ ev.detected => "cmd" \in ev.started
    /\ ev.opened # "none" => "conf" \in ev.started

\* C17: on a host without speech recognition no handler faults, no session is
\* ever started or left alive, and a tap on Yes or No resolves the open dialog.
C17_NoRecognitionDegrades ==
  ~recog =>
    /\ ~ev.threw /\ ev.started = {}
    /\ wake = "idle" /\ cmd = "idle" /\ conf = "null" /\ orph = NoOrph
    /\ ~wakeRunning /\ ~inCommandMode
    /\ ev.opened # "none" => inConfirmDialog
    /\ ev.act = "ConfirmYesClick" =>
         ~inConfirmDialog /\ ev.onConfirm = 1 /\ ev.post = PathOf(confirmOnConfirm)
    /\ ev.act = "ConfirmNoClick" =>
         ~inConfirmDialog /\ ev.onCancel = 1 /\ ev.post = "none"

\* Without recognition, a dialog opened by the Clear All button has been
\* accepted by a tap.
C17_Witness ==
  /\ ~recog /\ ev.act = "ConfirmYesClick" /\ ev.wasOpen
  /\ ~inConfirmDialog /\ ev.post = "/clear" /\ listening

\* C18: while the dialog is open and has a confirmation session, the end event
\* of that session restarts it at once; the end event of an earlier session
\* object leaves the current one running or about to fire its own end event.
C18_ConfirmSessionRestarts ==
  recog /\ ev.act = "ConfirmEnd" /\ inConfirmDialog /\ conf # "null" =>
    /\ ev.who = "cur" => Running("conf") /\ "conf" \in ev.started
    /\ ev.who = "orph" => conf \in {"active", "ending"}

\* The session of an open dialog has ended and has been started again.
C18_Witness ==
  /\ FullHost /\ ev.act = "ConfirmEnd" /\ ev.who = "cur"
  /\ inConfirmDialog /\ Running("conf") /\ "conf" \in ev.started

AcceptPhrases == {sConfirm, sYes, sYeah, sSure}
DeclinePhrases == {sCancel, sNo, sNope}

\* The reply contains one of the phrases, whatever its case.
Contains(phrases) == \E ph \in phrases : Includes(ToLowerCase(transcript), ph)

\* C19: a reply containing an accept phrase is an accept; one containing a
\* decline phrase and no accept phrase is a decline; any other reply speaks the
\* re-prompt, invokes neither callback and leaves the dialog open.
C19_ReplyClassified ==
  outcome # "none" =>
    /\ Contains(AcceptPhrases) => outcome = "accept"
    /\ ~Contains(AcceptPhrases) /\ Contains(DeclinePhrases) => outcome = "decline"
    /\ ~Contains(AcceptPhrases) /\ ~Contains(DeclinePhrases) => outcome = "other"
    /\ ev.act = "ConfirmResult" /\ outcome = "other" =>
         /\ "reprompt" \in ev.said /\ inConfirmDialog
         /\ ev.onConfirm = 0 /\ ev.onCancel = 0 /\ ev.post = "none"

\* The intents a transcript is interpreted as.
ListedBranches ==
  {"AddTask", "PromptMissing", "MarkDone", "DeleteByName", "ClearCompleted",
   "ClearAll", "ListAll", "ListPending", "ListCompleted", "SortPriority",
   "SortCategory", "SortDue", "SortCreated", "Unrecognized"}

\* What the handler run of a command result did, by kind.
Effects ==
  (IF ev.post # "none" THEN {"posted"} ELSE {})
    \cup (IF ev.opened # "none" THEN {"opened"} ELSE {})
    \cup (IF "msg" \in ev.said THEN {"spoke"} ELSE {})
    \cup (IF ev.post = "none" /\ inflight > 0 THEN {"listed"} ELSE {})

\* The one effect of a branch.
EffectOf(branch) ==
  IF branch \in {"AddTask", "MarkDone", "DeleteByName"} THEN "posted"
  ELSE IF branch \in {"ClearCompleted", "ClearAll"} THEN "opened"
  ELSE IF branch \in {"ListAll", "ListPending", "ListCompleted"} THEN "listed"
  ELSE "spoke"

\* The command result was dispatched as exactly one of the listed intents,
\* without a fault.
OneBranch ==
  /\ outcome \in ListedBranches
  /\ Effects = {EffectOf(outcome)}
  /\ outcome = "ClearAll" => ev.opened = "clearAll"
  /\ outcome = "ClearCompleted" => ev.opened = "clearCompleted"
  /\ ~ev.threw

PatternOrder ==
  <<"add", "remind", "mark", "delete", "clearCompleted", "clearAll", "listAll",
    "listPending", "listCompleted", "sortPriority", "sortCategory", "sortDue",
    "sortCreated">>

\* The trimmed, lower-cased transcript matches the pattern.
Matches(pattern, lower) ==
  CASE pattern = "add" -> StartsWith(lower, sAdd \o <<" ">>)
    [] pattern = "remind" -> StartsWith(lower, sRemindMeTo \o <<" ">>)
    [] pattern = "mark" -> markMatch(lower)
    [] pattern = "delete" -> deleteMatch(lower)
    [] pattern = "clearCompleted" ->
         Includes(lower, sClearCompleted) \/ Includes(lower, sRemoveCompleted)
    [] pattern = "clearAll" -> Includes(lower, sClearAll) \/ Includes(lower, sRemoveAll)
    [] pattern = "listAll" ->
         Includes(lower, sListAllTasks) \/ Includes(lower, sWhatAreMyTasks)
    [] pattern = "listPending" ->
         Includes(lower, sListPending) \/ Includes(lower, sPendingTasks)
    [] pattern = "listCompleted" ->
         Includes(lower, sListCompleted) \/ Includes(lower, sCompletedTasks)
    [] pattern = "sortPriority" ->
         Includes(lower, sSortByPriority) \/ Includes(lower, sOrderByPriority)
    [] pattern = "sortCategory" ->
         Includes(lower, sSortByCategory) \/ Includes(lower, sOrderByCategory)
    [] pattern = "sortDue" ->
         \E ph \in {sSortByDue, sSortByDate, sSortByDeadline,
                     sOrderByDue, sOrderByDate, sOrderByDeadline} : Includes(lower, ph)
    [] pattern = "sortCreated" ->
         \E ph \in {sSortByCreated, sSortByAdded, sOrderByCreated, sOrderByAdded} :
           Includes(lower, ph)

\* The intents a pattern dispatches.
BranchesOf(pattern) ==
  CASE pattern \in {"add", "remind"} -> {"AddTask", "PromptMissing"}
    [] pattern = "mark" -> {"MarkDone"}
    [] pattern = "delete" -> {"DeleteByName"}
    [] pattern = "clearCompleted" -> {"ClearCompleted"}
    [] pattern = "clearAll" -> {"ClearAll"}
    [] pattern = "listAll" -> {"ListAll"}
    [] pattern = "listPending" -> {"ListPending"}
    [] pattern = "listCompleted" -> {"ListCompleted"}
    [] pattern = "sortPriority" -> {"SortPriority"}
    [] pattern = "sortCategory" -> {"SortCategory"}
    [] pattern = "sortDue" -> {"SortDue"}
    [] pattern = "sortCreated" -> {"SortCreated"}

\* The places in PatternOrder of the patterns the transcript matches.
HitsIn(lower) == {i \in 1..Len(PatternOrder) : Matches(PatternOrder[i], lower)}

Hits == HitsIn(ToLowerCase(Trim(transcript)))

\* C21: a transcript that matches one or several patterns is dispatched as the
\* intent of the first of them in the order add, remind-me-to, mark-done,
\* delete/remove, clear-completed, clear-all, list-all, list-pending,
\* list-completed, sort-priority, sort-category, sort-due, sort-created, and has
\* the effect of that intent only; "add ..." containing "clear all" adds a task
\* and opens no confirmation.
C21_FirstPatternWins ==
  outcome # "none" /\ Trim(transcript) # <<>> =>
    \A hits \in {Hits}, lower \in {ToLowerCase(Trim(transcript))} :
      hits # {} =>
        /\ \A first \in hits :
             (\A k \in hits : first <= k) =>
               outcome \in BranchesOf(PatternOrder[first])
        /\ Effects = {EffectOf(outcome)}
        /\ sortMode = sortModeOf(outcome, "created")
        /\ StartsWith(lower, sAdd \o <<" ">>) /\ Includes(lower, sClearAll) =>
             /\ outcome = "AddTask" /\ request.path = "/add"
             /\ ev.opened = "none" /\ ~inConfirmDialog

\* "add clear all" was heard: a task named "clear all" is added, no dialog.
C21_Witness ==
  /\ transcript = uAdd \o <<" ">> \o uClearAll
  /\ outcome = "AddTask" /\ Cardinality(Hits) = 2
  /\ request.path = "/add" /\ request.value = uClearAll
  /\ ev.opened = "none" /\ ~inConfirmDialog

\* The transcript is the verb alone or the verb, a space and more.
HasForm(verb) ==
  LET lower == ToLowerCase(Trim(transcript))
  IN  StartsWith(lower, verb) /\ (Len(lower) = Len(verb) \/ lower[Len(verb) + 1] = " ")

\* What follows the verb, as spoken.
SpokenName(verb) == Trim(From(Trim(transcript), Len(verb) + 1))

\* C22: "add <name>" and "remind me to <name>" with a name send POST /add
\* {task: name}, the name as spoken; the same forms with nothing after the verb
\* speak the question for the missing name and send nothing.
C22_AddOrPrompt ==
  outcome # "none" =>
    \A verb \in {sAdd, sRemindMeTo} :
      HasForm(verb) =>
        IF SpokenName(verb) # <<>>
          THEN /\ outcome = "AddTask"
               /\ request = [method |-> "POST", path |-> "/add", key |-> "task",
                              value |-> SpokenName(verb)]
               /\ ev.post # "none"
          ELSE /\ outcome = "PromptMissing"
               /\ request = NoRequest /\ ev.post = "none" /\ "msg" \in ev.said

\* What stands between "mark " and " done" in the transcript.
MarkMiddle ==
  LET lower == ToLowerCase(Trim(transcript))
  IN  SubSeq(lower, Len(sMark) + 2, Len(lower) - Len(sDone) - 1)

\* The transcript is "mark <name> done" or "mark <name> as done".
MarkForm ==
  LET lower == ToLowerCase(Trim(transcript))
  IN  /\ StartsWith(lower, sMark \o <<" ">>) /\ EndsWith(lower, <<" ">> \o sDone)
      /\ Len(lower) >= Len(sMark) + Len(sDone) + 3
      /\ Trim(MarkMiddle) # <<>>

\* The name in it: without the trailing "as", if something is left then.
MarkedName ==
  LET tail == <<" ">> \o sAs
      short == Trim(SubSeq(MarkMiddle, 1, Len(MarkMiddle) - Len(tail)))
  IN  IF EndsWith(MarkMiddle, tail) /\ short # <<>> THEN short ELSE Trim(MarkMiddle)

\* C23: "mark <name> done" and "mark <name> as done" send POST /mark-by-name
\* {name: <name>}, the name without the leading "mark" and the trailing "done" or
\* "as done", and send nothing else.
C23_MarkByName ==
  outcome # "none" /\ MarkForm =>
    /\ outcome = "MarkDone"
    /\ request = [method |-> "POST", path |-> "/mark-by-name", key |-> "name",
                   value |-> MarkedName]
    /\ Effects = {"posted"} /\ inflight = 1

\* "mark milk as done" was heard: the name sent is "milk".
C23_Witness ==
  /\ transcript = uMark \o <<" ">> \o uMilkAsDone
  /\ outcome = "MarkDone" /\ request.path = "/mark-by-name"
  /\ request.value = uMilk /\ inflight = 1

\* The intents whose execution cannot be undone.
Destructive == {"DeleteByName", "ClearAll", "ClearCompleted"}

\* C24: a destructive intent reaches the backend only after the user confirmed
\* it: the handler that sends the request is an accept of an open dialog.
C24_DestructiveNeedsConfirmation ==
  outcome \in Destructive /\ (ev.post # "none" \/ request.method = "POST") =>
    ev.wasOpen /\ ev.onConfirm > 0

\* The tasks a list intent is about.
Listed(intent, list) ==
  IF intent = "ListAll" THEN list
  ELSE IF intent = "ListPending" THEN SelectSeq(list, IsPending)
  ELSE SelectSeq(list, IsCompleted)

\* C25: a list intent only reads the task collection and speaks: its dispatch
\* sends one GET and no POST, and neither the dispatch nor the handling of the
\* response changes sortMode, a session flag or the collection or faults; the
\* response is spoken as a summary with the number and the names of the tasks
\* listed, with an empty collection ListAll speaks "You have no tasks.", and a
\* failed fetch is spoken as such.
C25_ListOnlyReads ==
  [][outcome' \in ListIntents =>
       /\ UNCHANGED <<listening, wakeRunning, inCommandMode, inConfirmDialog,
                      sortMode, tasks>>
       /\ ev'.post = "none" /\ request'.method = "GET" /\ ~ev'.threw
       /\ ev'.act = "CommandResult" => inflight' = inflight + 1 /\ out' = NoOut
       /\ ev'.act = "Response" =>
            /\ "msg" \in ev'.said /\ inflight' = inflight - 1
            /\ ev'.arg = "fails" => out'.spoken.text = "Failed to fetch tasks."
            /\ ev'.arg = "tasks" /\ tasks = <<>> /\ outcome = "ListAll" =>
                 out'.spoken.text = "You have no tasks."
            /\ ev'.arg = "tasks" /\ Listed(outcome, tasks) # <<>> =>
                 /\ out'.spoken.count = Len(Listed(outcome, tasks))
                 /\ out'.spoken.names = NamesOf(Listed(outcome, tasks))]_vars

\* "list all tasks" with an empty collection: "You have no tasks." was spoken.
C25_Witness ==
  /\ outcome = "ListAll" /\ tasks = <<>> /\ ev.act = "Response" /\ ev.arg = "tasks"
  /\ out.spoken.text = "You have no tasks." /\ queue = <<"plain">>
  /\ inCommandMode /\ sortMode = "created"

sSortBy == <<"s", "o", "r", "t", " ", "b", "y", " ">>
sOrderBy == <<"o", "r", "d", "e", "r", " ", "b", "y", " ">>

\* The words that name a sort mode.
WordsOf(mode) ==
  CASE mode = "priority" -> {uPriority}
    [] mode = "category" -> {uCategory}
    [] mode = "due" -> {uDue, uDate, uDeadline}
    [] mode = "created" -> {uCreated, uAdded}

\* The transcript names the mode: "sort by" or "order by" and one of its words.
Named(mode) ==
  \E verb \in {sSortBy, sOrderBy}, word \in WordsOf(mode) :
    Includes(ToLowerCase(Trim(transcript)), verb \o word)

SortIntents == {"SortPriority", "SortCategory", "SortDue", "SortCreated"}

\* C26: a sort command sets sortMode to the mode its transcript names and
\* refreshes the task list with that mode; a transcript that names one mode and
\* matches no other pattern is a sort command; a dropdown click sets the mode
\* clicked and refreshes with it; sortMode is always one of created, priority,
\* category, due.
C26_SortModeSet ==
  /\ sortMode \in SortModes
  /\ ev.act = "CommandResult" /\ outcome \in SortIntents =>
       /\ Named(sortMode) /\ request = refreshTasks(sortMode)
       /\ ev.post = "none" /\ "msg" \in ev.said
  /\ ev.act = "CommandResult" /\ outcome \notin SortIntents =>
       /\ request.key # "sort"
       /\ \A mode \in SortModes :
            Named(mode) => \E i \in Hits : PatternOrder[i] \notin
              {"sortPriority", "sortCategory", "sortDue", "sortCreated"}
  /\ ev.act = "SortClick" => sortMode = ev.arg /\ request = refreshTasks(sortMode)

\* "order by deadline" was heard with the list sorted by creation: now by due date.
C26_Witness ==
  /\ transcript = uOrderBy \o <<" ">> \o uDeadline
  /\ ev.act = "CommandResult" /\ outcome = "SortDue"
  /\ sortMode = "due" /\ request = refreshTasks("due")

Answered == ev.act = "Response" /\ request.method = "POST" /\ out # NoOut

\* C28: for a POST sent through sendCommandJson, a response with a non-success
\* status speaks and shows its error (or "Unknown error"), refreshes nothing and
\* yields null; a success speaks the message if there is one, then refreshes the
\* task list and yields the data; a network failure speaks and shows "Network
\* error.", refreshes nothing and yields null.
C28_ResponseHandling ==
  Answered =>
    /\ response.kind = "json" /\ ~response.ok =>
         /\ out.spoken.text = out.status /\ "msg" \in ev.said
         /\ out.status = (IF response.error = "none" THEN "Unknown error" ELSE response.error)
         /\ out.refreshed = "none" /\ out.returned = "null"
    /\ response.kind = "json" /\ response.ok =>
         /\ out.spoken.text = response.message
         /\ ("msg" \in ev.said) = (response.message # "none")
         /\ out.refreshed = sortMode /\ out.returned = "data"
    /\ response.kind = "network" =>
         /\ out.spoken.text = "Network error." /\ out.status = "Network error."
         /\ "msg" \in ev.said
         /\ out.refreshed = "none" /\ out.returned = "null"

\* "delete milk" was answered with a non-success status and an error text.
C28_Witness ==
  /\ Answered /\ outcome = "DeleteByName" /\ response.kind = "json" /\ ~response.ok
  /\ response.error = "No such task." /\ out.status = "No such task."
  /\ out.returned = "null" /\ queue = <<"plain">>

\* The prompts that are still to lead to a session: the wake prompt while in
\* command mode, the dialog's prompt and re-prompt while the dialog is open.
DuePrompts ==
  (IF inCommandMode THEN {"yes"} ELSE {})
    \cup (IF inConfirmDialog THEN {"confirmPrompt", "reprompt"} ELSE {})

\* C29: a failed request or an error response, whenever it arrives, leaves
\* listening, wakeRunning, inCommandMode and inConfirmDialog as they were and
\* takes no pending prompt away from the command or confirmation session it is
\* to lead to: the completion callback of no such prompt is lost.
C29_BackendFailureHarmless ==
  [][ev'.act = "Response" /\ ev'.arg = "speaks" =>
       /\ UNCHANGED <<listening, wakeRunning, inCommandMode, inConfirmDialog>>
       /\ ev'.dropped \cap DuePrompts = {}]_vars

\* A character that the normalization turns into white space.
IsSeparator(c) == c \in {" ", ".", ",", "!", "?"}

\* str begins with the variant v, read loosely: letters in either case, and in
\* place of each space of v one or more spaces or punctuation marks.
RECURSIVE BeginsLoosely(_, _)
BeginsLoosely(str, v) ==
  IF v = <<>> THEN TRUE
  ELSE IF str = <<>> THEN FALSE
  ELSE IF Head(v) = " "
    THEN /\ IsSeparator(Head(str))
         /\ BeginsLoosely(Tail(str), v) \/ BeginsLoosely(Tail(str), Tail(v))
  ELSE LowerChar(Head(str)) = Head(v) /\ BeginsLoosely(Tail(str), Tail(v))

\* The transcript contains an accepted variant, up to case, punctuation and
\* the amount of white space.
SaysWakeWord ==
  \E i \in 1..Len(transcript), v \in wakeVariants :
    LowerChar(transcript[i]) = Head(v) /\ BeginsLoosely(From(transcript, i), v)

\* C30: the wake word is heard in exactly the transcripts that contain an
\* accepted variant once case, the punctuation . , ! ? and the amount of white
\* space are disregarded; an empty transcript contains none.  While neither in
\* command mode nor in a dialog, hearing it is a detection.
C30_WakeWordHeard ==
  outcome # "none" =>
    \A says \in {SaysWakeWord} :
      /\ (outcome = "heard") = says
      /\ transcript = <<>> => outcome = "noise"
      /\ ev.act = "WakeResult" => ev.detected = says

\* "hey, TO do!" was heard: a detection.
C30_Witness ==
  /\ transcript = wHeyComma \o <<" ">> \o wToCapital \o <<" ">> \o wDoBang
  /\ outcome = "heard" /\ ev.act = "WakeResult" /\ ev.detected /\ inCommandMode

\* C31: a wake-phrase result is a detection only when it arrives in AwaitingWake
\* with no dialog open; one that arrives while inCommandMode or inConfirmDialog
\* is true changes no flag, speaks nothing, schedules nothing and starts no
\* session.
C31_DetectionOnlyWhenAwaiting ==
  [][ev'.act = "WakeResult" /\ ev'.arg = "heard" =>
       /\ ev'.detected => AwaitingWake /\ ~inConfirmDialog
       /\ inCommandMode \/ inConfirmDialog =>
            /\ ~ev'.detected /\ ev'.said = {} /\ ev'.started = {}
            /\ UNCHANGED <<listening, wakeRunning, inCommandMode, inConfirmDialog,
                           confirmOnConfirm, cmd, conf, timers, queue, inflight>>]_vars

\* C32: a command-session error clears inCommandMode; it starts no wake session
\* when a dialog is open or listening is false; with listening true and no
\* dialog open the wake session is running afterwards, at once or later, unless
\* the user mutes or a dialog is opened first.
C32_CommandErrorRecovers ==
  /\ [](ev.act = "CommandError" =>
          /\ ~inCommandMode
          /\ ev.wasOpen \/ ~listening => "wake" \notin ev.started /\ ev.scheduled = 0)
  /\ (ev.act = "CommandError" /\ listening /\ ~inConfirmDialog)
       ~> (Running("wake") \/ ~listening \/ inConfirmDialog)

\* The end events still to come from the session objects of kind k.
EndsDue(k) == (IF SessionState(k) \in Live THEN 1 ELSE 0) + OfKind(orph, k)

\* C33: a stop requested by a mute click or by a dialog that opens leaves a
\* session that is not capturing as it is and adds no end event; one termination
\* of the command session (error, then end) leads to at most one wake-session
\* start.
C33_StopIdempotentOneRestart ==
  /\ [](restarts <= 1)
  /\ [][ev'.act = "ClearClick" \/ (ev'.act = "MuteClick" /\ ~listening') =>
          \A k \in {"wake", "cmd"} :
            /\ EndsDue(k)' = EndsDue(k)
            /\ SessionState(k) # "active" => SessionState(k)' = SessionState(k)]_vars

\* C34: the wake and the command session objects made at initialization are
\* the only ones: no session object of these kinds is alive that the variables
\* wakeRecognition and commandRecognition do not refer to, and no handler runs
\* on such an object.
C34_OneSessionObjectPerKind ==
  /\ OfKind(orph, "wake") = 0 /\ OfKind(orph, "cmd") = 0
  /\ ev.act \in {"WakeResult", "WakeError", "WakeEnd", "CommandResult",
                 "CommandError", "CommandEnd"} => ev.who = "cur"

\* C35: whenever wakeRunning is true the wake session is started and has not
\* ended; a start() that throws leaves the flag false, and the end event of the
\* wake session, after an error or by itself, clears it.
C35_FlagNeverOverstates ==
  /\ wakeRunning => recog /\ wake \in Live
  /\ ev.threw /\ ev.act \in {"TimerFire", "CommandError", "MuteClick"} => ~wakeRunning
  /\ ev.act = "WakeEnd" => ~wakeRunning

\* The restart timer fired before the stopped wake session had ended: start()
\* threw, the flag is still false.
C35_Witness ==
  /\ ev.act = "TimerFire" /\ ev.threw /\ ~wakeRunning
  /\ wake \in {"stopping", "ending"} /\ listening

\* C36: a click that turns listening on leaves no inCommandMode from before the
\* mute; with no dialog open the system is then in AwaitingWake, at once or
\* later (the wake session running and inCommandMode false, so that a wake
\* phrase is detected), unless the user mutes again or a dialog is opened first.
C36_UnmuteReentersAwaitingWake ==
  /\ [](ev.act = "MuteClick" /\ listening => ~inCommandMode)
  /\ (ev.act = "MuteClick" /\ listening /\ ~inConfirmDialog)
       ~> (AwaitingWake \/ ~listening \/ inConfirmDialog)

\* C37: while the "Yes?" prompt is in flight (inCommandMode true, the command
\* session not started) no recognition session is running, and no step starts
\* the wake session.
C37_SilentWhilePrompting ==
  InFlight("yes") /\ inCommandMode /\ cmd = "idle" =>
    /\ ~Running("wake") /\ ~Running("conf")
    /\ "wake" \notin ev.started

\* C38: the only confirmation session that is capturing is the one
\* confirmRecognition refers to: none is capturing that closeConfirmDialog cannot
\* stop, so no two are capturing at once.
C38_OneConfirmSession == orph[<<"conf", "active">>] = 0

\* C39: whenever the session wakeRecognition refers to is capturing, wakeRunning
\* is true, so that stopWakeRecognition does not skip it.
C39_CapturingMeansFlagged == Running("wake") => wakeRunning

----------------------------------------------------------------------------
(* The original script, src/unnamed/part_000, where it differs *)

\* speak(text) of the original: no completion callback is taken, and without a
\* synthesizer it returns at once.
speakOriginal(s, text) ==
  LET a == [s EXCEPT !.ev.said = @ \cup {text}]
  IN  IF ~synth THEN a
      ELSE [synthCancel(a) EXCEPT !.queue = <<"plain">>]

\* openConfirmDialog of the original: the prompt is spoken and the confirmation
\* session is created and started in the same call, while the prompt plays.
openConfirmDialogOriginal(s, onConfirm) ==
  LET a == [s EXCEPT !.inConfirmDialog = TRUE, !.confirmOnConfirm = onConfirm,
                     !.resolutions = 0, !.owed = FALSE, !.ev.opened = onConfirm]
      b == stopCommandRecognition(stopWakeRecognition(a))
  IN  startConfirmRecognition(speakOriginal(b, "confirmPrompt"))

\* C40: static/script.js behaves as the original script does: a handler that
\* opens the confirmation dialog starts the sessions the original's
\* openConfirmDialog starts in the same state on the same event, and leaves the
\* confirmation session as the original leaves it.
C40_SameSessionsAsOriginal ==
  [][ev'.opened # "none" =>
       \E o \in {openConfirmDialogOriginal(S(ev'.act, ev'.who, ev'.arg), ev'.opened)} :
         /\ o.ev.started = ev'.started
         /\ o.conf = conf']_vars

====
